---------------------------- MODULE Spec2Model ----------------------------
(***************************************************************************)
(* Model of structlib.classical_laminate.LaminateAnalysis (Classical       *)
(* Laminate Theory engine).                                                *)
(*                                                                         *)
(* Numbers.  The program computes in IEEE doubles; the model computes in   *)
(* exact rational arithmetic (a rational is a pair <<n, d>>, d > 0, in     *)
(* lowest terms).  Fibre angles are drawn from multiples of 45 degrees,    *)
(* for which cos^2, sin^2 and sin*cos -- the only trigonometric terms the  *)
(* program uses -- are rational.  "Within numerical tolerance" in the      *)
(* program therefore reads "exactly" in the model.  Division by zero keeps *)
(* the behaviour of the dividing type: Python numbers raise                *)
(* ZeroDivisionError, numpy scalars yield inf or nan.                      *)
(***************************************************************************)
EXTENDS Integers, Sequences, FiniteSets, TLC

(***************************************************************************)
(* Bound of the model: ply numbers passed to ply recovery range over       *)
(* -MaxPlyNumber..MaxPlyNumber.                                            *)
(***************************************************************************)
MaxPlyNumber == 4

(***************************************************************************)
(* Exact rational arithmetic.                                              *)
(***************************************************************************)
RECURSIVE GCD(_, _)
GCD(a, b) == IF b = 0 THEN a ELSE GCD(b, a % b)

IAbs(x) == IF x < 0 THEN -x ELSE x

Norm(n, d) ==
    LET s == IF d < 0 THEN -1 ELSE 1
        g == GCD(IAbs(n), IAbs(d))
    IN  IF n = 0 THEN <<0, 1>> ELSE <<(s * n) \div g, (s * d) \div g>>

R(i) == <<i, 1>>
Zero == <<0, 1>>
One == <<1, 1>>

\* Common factors are cancelled before multiplying, to keep the
\* intermediate integers small.
RAdd(x, y) ==
    LET g == GCD(x[2], y[2])
        a == y[2] \div g
        b == x[2] \div g
    IN  Norm(x[1] * a + y[1] * b, x[2] * a)

RNeg(x) == <<-x[1], x[2]>>
RSub(x, y) == RAdd(x, RNeg(y))

RMul(x, y) ==
    IF x[1] = 0 \/ y[1] = 0 THEN <<0, 1>>
    ELSE LET g1 == GCD(IAbs(x[1]), y[2])
             g2 == GCD(IAbs(y[1]), x[2])
         IN  Norm((x[1] \div g1) * (y[1] \div g2),
                  (x[2] \div g2) * (y[2] \div g1))

RDiv(x, y) == RMul(x, IF y[1] < 0 THEN <<-y[2], -y[1]>> ELSE <<y[2], y[1]>>)
RAbs(x) == <<IAbs(x[1]), x[2]>>
RLt(x, y) ==
    LET g == GCD(x[2], y[2])
    IN  x[1] * (y[2] \div g) < y[1] * (x[2] \div g)
RSq(x) == RMul(x, x)
RCube(x) == RMul(x, RMul(x, x))

(***************************************************************************)
(* Dense matrices as sequences of rows, vectors as sequences.              *)
(***************************************************************************)
RECURSIVE DotFrom(_, _, _)
DotFrom(u, v, i) ==
    IF i > Len(u) THEN Zero ELSE RAdd(RMul(u[i], v[i]), DotFrom(u, v, i + 1))

Dot(u, v) == DotFrom(u, v, 1)

Col(M, j) == [i \in 1..Len(M) |-> M[i][j]]

MatMul(X, Y) ==
    [i \in 1..Len(X) |-> [j \in 1..Len(Y[1]) |-> Dot(X[i], Col(Y, j))]]

MatVec(M, v) == [i \in 1..Len(M) |-> Dot(M[i], v)]

VecAdd(u, v) == [i \in 1..Len(u) |-> RAdd(u[i], v[i])]

VecScale(c, v) == [i \in 1..Len(v) |-> RMul(c, v[i])]

Identity(n) == [i \in 1..n |-> [j \in 1..n |-> IF i = j THEN One ELSE Zero]]

Zeros(n, m) == [i \in 1..n |-> [j \in 1..m |-> Zero]]

IsSymmetric(M) == \A i \in 1..Len(M) : \A j \in 1..Len(M) : M[i][j] = M[j][i]

(***************************************************************************)
(* numpy.linalg.solve / numpy.linalg.inv: Gaussian elimination with        *)
(* partial pivoting on the augmented matrix [M | Rhs]; an exactly zero     *)
(* pivot is reported as LinAlgError ("Singular matrix").                   *)
(***************************************************************************)
RECURSIVE PivotFrom(_, _, _, _)
PivotFrom(M, j, r, best) ==
    IF r > Len(M) THEN best
    ELSE PivotFrom(M, j, r + 1,
                   IF RLt(RAbs(M[best][j]), RAbs(M[r][j])) THEN r ELSE best)

SwapRows(M, a, b) ==
    [i \in 1..Len(M) |-> IF i = a THEN M[b] ELSE IF i = b THEN M[a] ELSE M[i]]

EliminateColumn(M, j) ==
    LET piv == [c \in 1..Len(M[j]) |-> RDiv(M[j][c], M[j][j])]
    IN  [i \in 1..Len(M) |->
            IF i = j THEN piv
            ELSE [c \in 1..Len(M[i]) |-> RSub(M[i][c], RMul(M[i][j], piv[c]))]]

RECURSIVE Reduce(_, _)
Reduce(M, j) ==
    IF j > Len(M) THEN [exc |-> "none", m |-> M]
    ELSE LET p == PivotFrom(M, j, j, j)
             S == SwapRows(M, j, p)
         IN  IF S[j][j] = Zero THEN [exc |-> "LinAlgError", m |-> <<>>]
             ELSE Reduce(EliminateColumn(S, j), j + 1)

LinalgSolve(M, Rhs) ==
    LET n == Len(M)
        m == Len(Rhs[1])
        aug == [i \in 1..n |-> [c \in 1..(n + m) |->
                    IF c <= n THEN M[i][c] ELSE Rhs[i][c - n]]]
        red == Reduce(aug, 1)
    IN  IF red.exc # "none" THEN [exc |-> red.exc, x |-> <<>>]
        ELSE [exc |-> "none",
              x |-> [i \in 1..n |-> [c \in 1..m |-> red.m[i][n + c]]]]

LinalgInv(M) == LinalgSolve(M, Identity(Len(M))).x

(***************************************************************************)
(* LaminateAnalysis: construction.                                         *)
(*                                                                         *)
(* An angle is kept in degrees; theta = angle * pi / 180 enters the        *)
(* program only through cos(theta)^2, sin(theta)^2 and                     *)
(* sin(theta) * cos(theta), given here for the multiples of 45 degrees.    *)
(***************************************************************************)
Half == <<1, 2>>
Third == <<1, 3>>

CosSq(angle) ==
    CASE angle \in {0, 180} -> One
      [] angle \in {45, -45} -> Half
      [] angle \in {90, -90} -> Zero

SinSq(angle) == RSub(One, CosSq(angle))

SinCos(angle) ==
    CASE angle \in {0, 180, 90, -90} -> Zero
      [] angle = 45 -> Half
      [] angle = -45 -> RNeg(Half)

RECURSIVE SumSeq(_)
SumSeq(s) == IF s = <<>> THEN Zero ELSE RAdd(Head(s), SumSeq(Tail(s)))

\* _calculate_Q; the divisions are Python float divisions.
CalculateQ(E11, E22, G12, V12, V21) ==
    LET den == RSub(One, RMul(V12, V21))
    IN  IF den = Zero THEN [exc |-> "ZeroDivisionError", Q |-> <<>>]
        ELSE [exc |-> "none",
              Q |-> << <<RDiv(E11, den), RDiv(RMul(V21, E11), den), Zero>>,
                       <<RDiv(RMul(V12, E22), den), RDiv(E22, den), Zero>>,
                       <<Zero, Zero, G12>> >>]

\* The loop of _calculate_z_coordinates from ply i on; self.t[i] past the
\* end of the thickness array raises IndexError.
\* current_z is not advanced after a ply.
RECURSIVE ZLoopStuck(_, _, _, _, _, _)
ZLoopStuck(t, k, i, current_z, z, z_m) ==
    IF i > k THEN [exc |-> "none", z |-> z, z_m |-> z_m]
    ELSE IF i > Len(t) THEN [exc |-> "IndexError", z |-> z, z_m |-> z_m]
    ELSE ZLoopStuck(t, k, i + 1, current_z,
                    Append(z, RAdd(current_z, t[i])),
                    Append(z_m, RAdd(current_z, RMul(t[i], Half))))

RECURSIVE ZLoop(_, _, _, _, _, _)
ZLoop(t, k, i, current_z, z, z_m) ==
    IF i > k THEN [exc |-> "none", z |-> z, z_m |-> z_m]
    ELSE IF i > Len(t) THEN [exc |-> "IndexError", z |-> z, z_m |-> z_m]
    ELSE ZLoop(t, k, i + 1, RAdd(current_z, t[i]),
               Append(z, RAdd(current_z, t[i])),
               Append(z_m, RAdd(current_z, RMul(t[i], Half))))

CalculateZCoordinates(t, k) ==
    LET t_total == SumSeq(t)
    IN  ZLoop(t, k, 1, RNeg(RMul(t_total, Half)), <<>>, <<>>)

\* cos^2 and sin^2 exchanged.
StressTransformSwapped(angle) ==
    LET c2 == SinSq(angle)
        s2 == CosSq(angle)
        sc == SinCos(angle)
    IN  << <<c2, s2, RMul(R(2), sc)>>,
           <<s2, c2, RMul(R(-2), sc)>>,
           <<RNeg(sc), sc, RSub(c2, s2)>> >>

StressTransform(angle) ==
    LET c2 == CosSq(angle)
        s2 == SinSq(angle)
        sc == SinCos(angle)
    IN  << <<c2, s2, RMul(R(2), sc)>>,
           <<s2, c2, RMul(R(-2), sc)>>,
           <<RNeg(sc), sc, RSub(c2, s2)>> >>

StrainTransform(angle) ==
    LET c2 == CosSq(angle)
        s2 == SinSq(angle)
        sc == SinCos(angle)
    IN  << <<c2, s2, sc>>,
           <<s2, c2, RNeg(sc)>>,
           <<RMul(R(-2), sc), RMul(R(2), sc), RSub(c2, s2)>> >>

CalculateTransformation(angle, Q) ==
    LET T == StressTransform(angle)
        T_e == StrainTransform(angle)
    IN  [T |-> T, T_e |-> T_e,
         Q_bar |-> MatMul(MatMul(LinalgInv(T), Q), T_e)]

\* Index slip: the row index is not used.
ATermRowSlip(Q_bar, t, z, ply, i, j) == RMul(Q_bar[ply][1][j], t[ply])

ATerm(Q_bar, t, z, ply, i, j) == RMul(Q_bar[ply][i][j], t[ply])

\* The lower surface z - t is taken to be t.
BTermNoLower(Q_bar, t, z, ply, i, j) ==
    RMul(RMul(Half, Q_bar[ply][i][j]), RSub(RSq(z[ply]), RSq(t[ply])))

BTerm(Q_bar, t, z, ply, i, j) ==
    RMul(RMul(Half, Q_bar[ply][i][j]),
         RSub(RSq(z[ply]), RSq(RSub(z[ply], t[ply]))))

\* The factor of the D term is 1/2.
DTermHalf(Q_bar, t, z, ply, i, j) ==
    RMul(RMul(Half, Q_bar[ply][i][j]),
         RSub(RCube(z[ply]), RCube(RSub(z[ply], t[ply]))))

DTerm(Q_bar, t, z, ply, i, j) ==
    RMul(RMul(Third, Q_bar[ply][i][j]),
         RSub(RCube(z[ply]), RCube(RSub(z[ply], t[ply]))))

CalculateABDMatrices(Q_bar, t, z, k) ==
    [A |-> [i \in 1..3 |-> [j \in 1..3 |->
                SumSeq([ply \in 1..k |-> ATerm(Q_bar, t, z, ply, i, j)])]],
     B |-> [i \in 1..3 |-> [j \in 1..3 |->
                SumSeq([ply \in 1..k |-> BTerm(Q_bar, t, z, ply, i, j)])]],
     D |-> [i \in 1..3 |-> [j \in 1..3 |->
                SumSeq([ply \in 1..k |-> DTerm(Q_bar, t, z, ply, i, j)])]]]

\* LaminateAnalysis.__init__.  thicknesses is [scalar |-> TRUE, v |-> <<number>>]
\* or [scalar |-> FALSE, v |-> list].  The result carries the exception that
\* ended the call ("none": the object self was built) and the matrix
\* computations the call entered, in order.
NoObject == [none |-> TRUE]

LaminateInit(layup_angles, thicknesses, material_properties) ==
    LET angles == layup_angles
        k == Len(angles)
        t == IF thicknesses.scalar THEN [i \in 1..k |-> R(thicknesses.v[1])]
             ELSE [i \in 1..Len(thicknesses.v) |-> R(thicknesses.v[i])]
        E11 == material_properties.E11
        E22 == material_properties.E22
        G12 == material_properties.G12
        V12 == material_properties.V12
        V21 == RDiv(RMul(V12, E22), E11)
        q == CalculateQ(E11, E22, G12, V12, V21)
        zz == CalculateZCoordinates(t, k)
        tr == [i \in 1..k |-> CalculateTransformation(angles[i], q.Q)]
        Q_bar == [i \in 1..k |-> tr[i].Q_bar]
        abd == CalculateABDMatrices(Q_bar, t, zz.z, k)
    IN  IF q.exc # "none"
        THEN [exc |-> q.exc, stages |-> <<"Q">>, self |-> NoObject]
        ELSE IF zz.exc # "none"
        THEN [exc |-> zz.exc, stages |-> <<"Q", "z">>, self |-> NoObject]
        ELSE [exc |-> "none",
              stages |-> <<"Q", "z">> \o [i \in 1..k |-> "T"] \o <<"ABD">>,
              self |-> [angles |-> angles, t |-> t, k |-> k,
                        E11 |-> E11, E22 |-> E22, G12 |-> G12,
                        V12 |-> V12, V21 |-> V21,
                        Q |-> q.Q, z |-> zz.z, z_m |-> zz.z_m,
                        Q_bar |-> Q_bar,
                        T |-> [i \in 1..k |-> tr[i].T],
                        T_e |-> [i \in 1..k |-> tr[i].T_e],
                        A |-> abd.A, B |-> abd.B, D |-> abd.D]]

(***************************************************************************)
(* LaminateAnalysis: queries.  Each yields the object after the call, the  *)
(* exception that ended it ("none": it returned) and the returned value.   *)
(***************************************************************************)
NoValue == [none |-> TRUE]

\* np.block([[A, B], [B, D]])
AbdMatrix(self) ==
    [i \in 1..6 |-> [j \in 1..6 |->
        IF i <= 3 /\ j <= 3 THEN self.A[i][j]
        ELSE IF i <= 3 THEN self.B[i][j - 3]
        ELSE IF j <= 3 THEN self.B[i - 3][j]
        ELSE self.D[i - 3][j - 3]]]

\* np.vstack([forces.reshape(3, 1), moments.reshape(3, 1)])
LoadVector(forces, moments) == forces \o moments

\* The solution is split the wrong way round.
CalculateResponseSwapped(self, forces, moments) ==
    LET load_vector == LoadVector(forces, moments)
        abd_matrix == AbdMatrix(self)
        result == LinalgSolve(abd_matrix, [i \in 1..6 |-> <<load_vector[i]>>])
    IN  IF result.exc # "none"
        THEN [self |-> self, exc |-> result.exc, ret |-> NoValue]
        ELSE [self |-> self, exc |-> "none",
              ret |-> [midplane_strains |-> [i \in 1..3 |-> result.x[i + 3][1]],
                       curvatures |-> [i \in 1..3 |-> result.x[i][1]]]]

\* np.linalg.solve(abd_matrix, load_vector), load_vector a 6x1 column
SolveLoad(abd_matrix, load_vector) ==
    LinalgSolve(abd_matrix, [i \in 1..6 |-> <<load_vector[i]>>])

\* (result[:3], result[3:])
SplitResult(x) ==
    [midplane_strains |-> [i \in 1..3 |-> x[i][1]],
     curvatures |-> [i \in 1..3 |-> x[i + 3][1]]]

CalculateResponse(self, forces, moments) ==
    LET load_vector == LoadVector(forces, moments)
        abd_matrix == AbdMatrix(self)
        result == SolveLoad(abd_matrix, load_vector)
    IN  IF result.exc # "none"
        THEN [self |-> self, exc |-> result.exc, ret |-> NoValue]
        ELSE [self |-> self, exc |-> "none", ret |-> SplitResult(result.x)]

\* Python indexing of a sequence of length n by the 0-based index idx:
\* the 1-based position read, or 0 where Python raises IndexError.
PyIndex(idx, n) ==
    IF 0 <= idx /\ idx < n THEN idx + 1
    ELSE IF -n <= idx /\ idx < 0 THEN n + idx + 1
    ELSE 0

\* midplane_strains + self.z_m[ply_idx, 0] * curvatures, p the position read
GlobalStrain(self, midplane_strains, curvatures, p) ==
    VecAdd(midplane_strains, VecScale(self.z_m[p], curvatures))

\* ply_number is used as the 0-based index without the adjustment.
CalculatePlyStrainsStressesNoAdjust(self, midplane_strains, curvatures, ply_number) ==
    LET p == PyIndex(ply_number, self.k)
        global_strain == GlobalStrain(self, midplane_strains, curvatures, p)
        global_stress == MatVec(self.Q_bar[p], global_strain)
    IN  IF p = 0
        THEN [self |-> self, exc |-> "IndexError", ret |-> NoValue]
        ELSE [self |-> self, exc |-> "none",
              ret |-> [global_strain |-> global_strain,
                       global_stress |-> global_stress,
                       local_strain |-> MatVec(self.T_e[p], global_strain),
                       local_stress |-> MatVec(self.T[p], global_stress)]]

CalculatePlyStrainsStresses(self, midplane_strains, curvatures, ply_number) ==
    LET ply_idx == ply_number - 1
        p == PyIndex(ply_idx, self.k)
        global_strain == GlobalStrain(self, midplane_strains, curvatures, p)
        global_stress == MatVec(self.Q_bar[p], global_strain)
        local_strain == MatVec(self.T_e[p], global_strain)
        local_stress == MatVec(self.T[p], global_stress)
    IN  IF p = 0
        THEN [self |-> self, exc |-> "IndexError", ret |-> NoValue]
        ELSE [self |-> self, exc |-> "none",
              ret |-> [global_strain |-> global_strain,
                       global_stress |-> global_stress,
                       local_strain |-> local_strain,
                       local_stress |-> local_stress]]

\* numpy float arithmetic: <<1, 0>> is inf, <<-1, 0>> is -inf, <<0, 0>> is nan.
NaN == <<0, 0>>
Inf(sign) == <<sign, 0>>
Sign(x) == IF x[1] > 0 THEN 1 ELSE IF x[1] < 0 THEN -1 ELSE 0
IsFinite(x) == x[2] # 0

NpDiv(x, y) ==
    IF x = NaN \/ y = NaN THEN NaN
    ELSE IF ~IsFinite(x) THEN (IF IsFinite(y)
                               THEN Inf(Sign(x) * (IF Sign(y) < 0 THEN -1 ELSE 1))
                               ELSE NaN)
    ELSE IF ~IsFinite(y) THEN Zero
    ELSE IF y = Zero THEN (IF x = Zero THEN NaN ELSE Inf(Sign(x)))
    ELSE RDiv(x, y)

NpMul(x, y) ==
    IF x = NaN \/ y = NaN THEN NaN
    ELSE IF IsFinite(x) /\ IsFinite(y) THEN RMul(x, y)
    ELSE IF Sign(x) * Sign(y) = 0 THEN NaN
    ELSE Inf(Sign(x) * Sign(y))

NpSub(x, y) ==
    IF x = NaN \/ y = NaN THEN NaN
    ELSE IF IsFinite(x) /\ IsFinite(y) THEN RSub(x, y)
    ELSE IF ~IsFinite(x) /\ ~IsFinite(y)
         THEN (IF Sign(x) = Sign(y) THEN NaN ELSE x)
    ELSE IF ~IsFinite(x) THEN x
    ELSE Inf(-Sign(y))

\* self.A is normalised by the total thickness in place.
GetEngineeringConstantsInPlace(self) ==
    LET t_total == SumSeq(self.t)
        A == [i \in 1..3 |-> [j \in 1..3 |-> NpDiv(self.A[i][j], t_total)]]
        c == NpSub(One, NpDiv(NpMul(A[1][2], A[1][2]), NpMul(A[1][1], A[2][2])))
    IN  [self |-> [self EXCEPT !.A = A], exc |-> "none",
         ret |-> [Ex |-> NpMul(A[1][1], c),
                  Ey |-> NpMul(A[2][2], c),
                  Gxy |-> A[3][3],
                  vxy |-> NpDiv(A[1][2], A[2][2]),
                  vyx |-> NpDiv(A[1][2], A[1][1])]]

\* The dictionary of get_engineering_constants from self.A and t_total.
EngineeringConstantsOf(A, t_total) ==
    LET c == NpSub(One, NpDiv(RSq(A[1][2]), RMul(A[1][1], A[2][2])))
    IN  [Ex |-> NpMul(NpDiv(A[1][1], t_total), c),
         Ey |-> NpMul(NpDiv(A[2][2], t_total), c),
         Gxy |-> NpDiv(A[3][3], t_total),
         vxy |-> NpDiv(A[1][2], A[2][2]),
         vyx |-> NpDiv(A[1][2], A[1][1])]

GetEngineeringConstants(self) ==
    LET t_total == SumSeq(self.t)
    IN  [self |-> self, exc |-> "none",
         ret |-> EngineeringConstantsOf(self.A, t_total)]

\* Counter(self.angles)[a]
AngleCount(angles, a) == Cardinality({i \in 1..Len(angles) : angles[i] = a})

\* The 45 degree bucket counts the +45 plies only.
AnalyzeLayupDistributionPlusOnly(self) ==
    LET present == {self.angles[i] : i \in 1..self.k}
        angle_counts == [a \in present |-> AngleCount(self.angles, a)]
        total_plies == Len(self.angles)
        Pct(n) == RMul(RDiv(R(n), R(total_plies)), R(100))
    IN  IF total_plies = 0
        THEN [self |-> self, exc |-> "ZeroDivisionError", ret |-> NoValue]
        ELSE [self |-> self, exc |-> "none",
              ret |-> [counts |-> angle_counts,
                       percentages |->
                          [deg0 |-> Pct(AngleCount(self.angles, 0)),
                           deg45 |-> Pct(AngleCount(self.angles, 45)),
                           deg90 |-> Pct(AngleCount(self.angles, 90))],
                       total_plies |-> total_plies]]

AnalyzeLayupDistribution(self) ==
    LET present == {self.angles[i] : i \in 1..self.k}
        angle_counts == [a \in present |-> AngleCount(self.angles, a)]
        total_plies == Len(self.angles)
        Pct(n) == RMul(RDiv(R(n), R(total_plies)), R(100))
    IN  IF total_plies = 0
        THEN [self |-> self, exc |-> "ZeroDivisionError", ret |-> NoValue]
        ELSE [self |-> self, exc |-> "none",
              ret |-> [counts |-> angle_counts,
                       percentages |->
                          [deg0 |-> Pct(AngleCount(self.angles, 0)),
                           deg45 |-> Pct(AngleCount(self.angles, 45)
                                         + AngleCount(self.angles, -45)),
                           deg90 |-> Pct(AngleCount(self.angles, 90))],
                       total_plies |-> total_plies]]

(***************************************************************************)
(* The inputs a caller may pass.                                           *)
(***************************************************************************)
Angles == {0, 45, -45, 90}

SeqsUpTo(S, n) == UNION {[1..m -> S] : m \in 0..n}

ScalarThicknesses == {[scalar |-> TRUE, v |-> <<x>>] : x \in {1, 2}}

ListThicknesses == {[scalar |-> FALSE, v |-> l] : l \in SeqsUpTo({0, 1, 2}, 2)}

\* Stacks with a ply at 180 degrees, an angle outside 0, 45, -45, 90.
OffAxisStacks == {<<180>>, <<0, 180>>, <<180, -45>>, <<90, 180, 45>>}

\* (layup_angles, thicknesses): stacks of up to two plies with any
\* thickness argument, and three-ply stacks of unit ply thickness.  The
\* exact elimination of the 6x6 system stays within TLC's 32-bit integers
\* on these.
Layups ==
    (SeqsUpTo(Angles, 2) \X (ScalarThicknesses \cup ListThicknesses))
    \cup ([1..3 -> Angles] \X {[scalar |-> TRUE, v |-> <<1>>]})
    \cup (OffAxisStacks \X {[scalar |-> TRUE, v |-> <<1>>]})

\* An orthotropic material (Q = [[7, 2, 0], [2, 1, 0], [0, 0, 1]]) and one
\* with V12 * V21 = 1.
Materials ==
    { [E11 |-> R(3), E22 |-> <<3, 7>>, G12 |-> R(1), V12 |-> R(2)],
      [E11 |-> R(4), E22 |-> R(1), G12 |-> R(1), V12 |-> R(2)] }

ZeroVector == <<R(0), R(0), R(0)>>

\* (forces, moments) passed to calculate_response
Loads ==
    { <<<<R(1), R(0), R(0)>>, ZeroVector>>,
      <<<<R(2), R(-1), R(1)>>, <<R(1), R(0), R(-1)>>>> }

\* (midplane_strains, curvatures) passed to calculate_ply_strains_stresses
Deformations ==
    { <<<<R(1), R(2), R(-1)>>, ZeroVector>>,
      <<<<R(1), R(0), R(1)>>, <<R(2), R(1), R(-1)>>>> }

PlyNumbers == (0 - MaxPlyNumber)..MaxPlyNumber

(***************************************************************************)
(* Sequential use of one laminate: the caller constructs an object once    *)
(* and then queries it; every action is one whole call.                    *)
(***************************************************************************)
\* obj, exc, stages, call, ret: the object the caller holds, and the last
\* call with its outcome.  thr: the queries in progress in the threads of
\* the concurrent specification below.
VARIABLES obj, exc, stages, call, ret, thr

vars == <<obj, exc, stages, call, ret, thr>>

Threads == {1, 2}

Idle ==
    [pc |-> "idle", op |-> "none", args |-> <<>>, loc |-> NoValue,
     exc |-> "none", ret |-> NoValue]

Init ==
    /\ obj = NoObject
    /\ exc = "none"
    /\ stages = <<>>
    /\ call = [op |-> "none", args |-> <<>>]
    /\ ret = NoValue
    /\ thr = [th \in Threads |-> Idle]

Construct ==
    /\ call.op = "none"
    /\ \E l \in Layups, m \in Materials :
         LET a == l[1]
             th == l[2]
             r == LaminateInit(a, th, m)
         IN  /\ obj' = r.self
             /\ exc' = r.exc
             /\ stages' = r.stages
             /\ call' = [op |-> "__init__", args |-> <<a, th, m>>]
             /\ ret' = NoValue
             /\ UNCHANGED thr

Query(op, args, r) ==
    /\ obj' = r.self
    /\ exc' = r.exc
    /\ ret' = r.ret
    /\ call' = [op |-> op, args |-> args]
    /\ UNCHANGED <<stages, thr>>

Response ==
    /\ obj # NoObject
    /\ \E l \in Loads :
          Query("calculate_response", l, CalculateResponse(obj, l[1], l[2]))

PlyRecovery ==
    /\ obj # NoObject
    /\ \E d \in Deformations, n \in PlyNumbers :
          Query("calculate_ply_strains_stresses", <<d[1], d[2], n>>,
                CalculatePlyStrainsStresses(obj, d[1], d[2], n))

EngineeringConstants ==
    /\ obj # NoObject
    /\ Query("get_engineering_constants", <<>>, GetEngineeringConstants(obj))

LayupDistribution ==
    /\ obj # NoObject
    /\ Query("analyze_layup_distribution", <<>>, AnalyzeLayupDistribution(obj))

Next ==
    \/ Construct
    \/ Response
    \/ PlyRecovery
    \/ EngineeringConstants
    \/ LayupDistribution

Spec == Init /\ [][Next]_vars

(***************************************************************************)
(* Concurrent queries against one constructed laminate.  A thread runs a   *)
(* query statement by statement; its locals are in thr[th].loc.  The       *)
(* statements read the fields of obj and write locals only.                *)
(***************************************************************************)
ConcLayups ==
    { <<<<0, 45>>, [scalar |-> TRUE, v |-> <<1>>]>>,
      <<<<45, -45, 90>>, [scalar |-> TRUE, v |-> <<1>>]>>,
      <<<< >>, [scalar |-> FALSE, v |-> << >>]>> }

ConcMaterial == [E11 |-> R(3), E22 |-> <<3, 7>>, G12 |-> R(1), V12 |-> R(2)]

InitConc ==
    \E l \in ConcLayups :
        LET r == LaminateInit(l[1], l[2], ConcMaterial)
        IN  /\ obj = r.self
            /\ exc = r.exc
            /\ stages = r.stages
            /\ call = [op |-> "__init__", args |-> <<l[1], l[2], ConcMaterial>>]
            /\ ret = NoValue
            /\ thr = [th \in Threads |-> Idle]

Step(th, next) ==
    /\ thr' = [thr EXCEPT ![th] = next]
    /\ UNCHANGED <<obj, exc, stages, call, ret>>

Raise(th, e) == [thr[th] EXCEPT !.pc = "done", !.exc = e]

Return(th, v) == [thr[th] EXCEPT !.pc = "done", !.ret = v]

\* calculate_response, line 136
RespLoad(th) ==
    /\ thr[th].pc = "idle"
    /\ \E l \in Loads :
          Step(th, [Idle EXCEPT !.pc = "r_block",
                                !.op = "calculate_response", !.args = l,
                                !.loc = [load_vector |-> LoadVector(l[1], l[2])]])

\* line 139
RespBlock(th) ==
    /\ thr[th].pc = "r_block"
    /\ Step(th, [thr[th] EXCEPT !.pc = "r_solve",
                     !.loc = [load_vector |-> thr[th].loc.load_vector,
                              abd_matrix |-> AbdMatrix(obj)]])

\* line 142
RespSolve(th) ==
    /\ thr[th].pc = "r_solve"
    /\ LET result == SolveLoad(thr[th].loc.abd_matrix, thr[th].loc.load_vector)
       IN  IF result.exc # "none"
           THEN Step(th, Raise(th, result.exc))
           ELSE Step(th, [thr[th] EXCEPT !.pc = "r_return",
                                         !.loc = [result |-> result.x]])

\* lines 144-147
RespReturn(th) ==
    /\ thr[th].pc = "r_return"
    /\ Step(th, Return(th, SplitResult(thr[th].loc.result)))

\* calculate_ply_strains_stresses, line 174
PlyIndex(th) ==
    /\ thr[th].pc = "idle"
    /\ \E d \in Deformations, n \in PlyNumbers :
          Step(th, [Idle EXCEPT !.pc = "p_strain",
                                !.op = "calculate_ply_strains_stresses",
                                !.args = <<d[1], d[2], n>>,
                                !.loc = [ply_idx |-> n - 1]])

\* line 177
PlyGlobalStrain(th) ==
    /\ thr[th].pc = "p_strain"
    /\ LET p == PyIndex(thr[th].loc.ply_idx, obj.k)
       IN  IF p = 0
           THEN Step(th, Raise(th, "IndexError"))
           ELSE Step(th, [thr[th] EXCEPT !.pc = "p_stress",
                     !.loc = [p |-> p,
                              global_strain |->
                                  GlobalStrain(obj, thr[th].args[1],
                                               thr[th].args[2], p)]])

\* line 178
PlyGlobalStress(th) ==
    /\ thr[th].pc = "p_stress"
    /\ LET loc == thr[th].loc
       IN  Step(th, [thr[th] EXCEPT !.pc = "p_local",
                     !.loc = [p |-> loc.p,
                              global_strain |-> loc.global_strain,
                              global_stress |->
                                  MatVec(obj.Q_bar[loc.p], loc.global_strain)]])

\* lines 181-184
PlyLocal(th) ==
    /\ thr[th].pc = "p_local"
    /\ LET loc == thr[th].loc
       IN  Step(th, Return(th,
                [global_strain |-> loc.global_strain,
                 global_stress |-> loc.global_stress,
                 local_strain |-> MatVec(obj.T_e[loc.p], loc.global_strain),
                 local_stress |-> MatVec(obj.T[loc.p], loc.global_stress)]))

\* get_engineering_constants, line 195
EngTotal(th) ==
    /\ thr[th].pc = "idle"
    /\ Step(th, [Idle EXCEPT !.pc = "e_constants",
                             !.op = "get_engineering_constants",
                             !.loc = [t_total |-> SumSeq(obj.t)]])

\* The constants are computed on self.A normalised in place.
EngConstantsInPlace(th) ==
    /\ thr[th].pc = "e_constants"
    /\ LET t_total == thr[th].loc.t_total
           A == [i \in 1..3 |-> [j \in 1..3 |-> NpDiv(obj.A[i][j], t_total)]]
       IN  /\ obj' = [obj EXCEPT !.A = A]
           /\ thr' = [thr EXCEPT ![th] =
                         Return(th, EngineeringConstantsOf(A, One))]
           /\ UNCHANGED <<exc, stages, call, ret>>

\* lines 198-210
EngConstants(th) ==
    /\ thr[th].pc = "e_constants"
    /\ Step(th, Return(th, EngineeringConstantsOf(obj.A, thr[th].loc.t_total)))

\* The caller takes the outcome; the thread is free for the next query.
Finish(th) ==
    /\ thr[th].pc = "done"
    /\ Step(th, Idle)

NextConc ==
    \E th \in Threads :
        \/ RespLoad(th)
        \/ RespBlock(th)
        \/ RespSolve(th)
        \/ RespReturn(th)
        \/ PlyIndex(th)
        \/ PlyGlobalStrain(th)
        \/ PlyGlobalStress(th)
        \/ PlyLocal(th)
        \/ EngTotal(th)
        \/ EngConstants(th)
        \/ Finish(th)

SpecConc == InitConc /\ [][NextConc]_vars

(***************************************************************************)
(* material.py: Material and MaterialDatabase.  A Material is its name and *)
(* its properties dictionary; the catalog self.materials is a function     *)
(* from the keys present to Materials.  A properties dictionary is given   *)
(* by E11, E22, G12 (in 10^4 psi) and V12 (in hundredths); the catalog     *)
(* never looks inside it.                                                  *)
(***************************************************************************)
Material(name, properties) == [name |-> name, properties |-> properties]

\* A dictionary key that is absent raises KeyError.
MaterialFromDict(data) ==
    IF "name" \in DOMAIN data /\ "properties" \in DOMAIN data
    THEN [exc |-> "none", material |-> Material(data.name, data.properties)]
    ELSE [exc |-> "KeyError", material |-> NoValue]

DefaultMaterials ==
    [n \in {"T300/5208_graphite_epoxy", "B(4)/5505_boron_epoxy",
            "AS/3501_graphite_epoxy", "Scotchply_1002_glass_epoxy",
            "Kevlar49_aramid_epoxy"} |->
        CASE n = "T300/5208_graphite_epoxy" ->
                 [E11 |-> 2625, E22 |-> 149, G12 |-> 104, V12 |-> 28]
          [] n = "B(4)/5505_boron_epoxy" ->
                 [E11 |-> 2959, E22 |-> 268, G12 |-> 81, V12 |-> 23]
          [] n = "AS/3501_graphite_epoxy" ->
                 [E11 |-> 2001, E22 |-> 130, G12 |-> 103, V12 |-> 30]
          [] n = "Scotchply_1002_glass_epoxy" ->
                 [E11 |-> 560, E22 |-> 120, G12 |-> 60, V12 |-> 26]
          [] n = "Kevlar49_aramid_epoxy" ->
                 [E11 |-> 1102, E22 |-> 80, G12 |-> 33, V12 |-> 34]]

\* self.materials[key] = material
Put(materials, key, material) ==
    [n \in DOMAIN materials \cup {key} |->
        IF n = key THEN material ELSE materials[n]]

\* The default materials are left out, nothing is stored.
InitDefaultMaterialsNothing(self) == self

InitDefaultMaterials(self) ==
    [self EXCEPT !.materials =
        [n \in DOMAIN self.materials \cup DOMAIN DefaultMaterials |->
            IF n \in DOMAIN DefaultMaterials
            THEN Material(n, DefaultMaterials[n])
            ELSE self.materials[n]]]

\* {"name": name, **material_data}: a "name" of material_data replaces name.
WithName(name, material_data) ==
    [f \in {"name"} \cup DOMAIN material_data |->
        IF f \in DOMAIN material_data THEN material_data[f] ELSE name]

\* The loop of load_database over data.items(), from entry i on.
RECURSIVE LoadLoop(_, _, _)
LoadLoop(materials, data, i) ==
    IF i > Len(data) THEN [exc |-> "none", materials |-> materials]
    ELSE LET m == MaterialFromDict(WithName(data[i].key, data[i].material_data))
         IN  IF m.exc # "none"
             THEN [exc |-> m.exc, materials |-> materials]
             ELSE LoadLoop(Put(materials, data[i].key, m.material), data, i + 1)

\* load_database.  file is what the path holds when it is opened: "absent"
\* or "vanishes" (open raises FileNotFoundError), "unreadable" (open raises
\* another OSError), "invalid_json" (json.load raises JSONDecodeError),
\* "not_object" (JSON that is not an object) or "json" with the entries of
\* the object in order.
LoadDatabase(self, file) ==
    CASE file.kind \in {"absent", "vanishes", "invalid_json"} ->
             [self |-> InitDefaultMaterials(self), exc |-> "none"]
      [] file.kind = "unreadable" -> [self |-> self, exc |-> "OSError"]
      [] file.kind = "not_object" -> [self |-> self, exc |-> "AttributeError"]
      [] file.kind = "json" ->
             LET r == LoadLoop(self.materials, file.data, 1)
             IN  [self |-> [self EXCEPT !.materials = r.materials],
                  exc |-> r.exc]

NoPath == [none |-> TRUE]

\* MaterialDatabase.__init__; os.path.exists is true of every file but an
\* "absent" one.
MaterialDatabaseInit(database_path, file) ==
    LET self == [materials |-> [n \in {} |-> NoValue]]
    IN  IF database_path # NoPath /\ file.kind # "absent"
        THEN LET r == LoadDatabase(self, file)
             IN  [exc |-> r.exc,
                  self |-> IF r.exc = "none" THEN r.self ELSE NoObject]
        ELSE [exc |-> "none", self |-> InitDefaultMaterials(self)]

None == [py |-> "None"]

GetMaterial(self, name) ==
    [self |-> self, exc |-> "none",
     ret |-> IF name \in DOMAIN self.materials
             THEN self.materials[name] ELSE None]

AddMaterial(self, material) ==
    [self |-> [self EXCEPT !.materials = Put(@, material.name, material)],
     exc |-> "none", ret |-> None]

\* The entry is reported deleted and left in place.
DeleteMaterialKept(self, name) ==
    [self |-> self, exc |-> "none", ret |-> name \in DOMAIN self.materials]

DeleteMaterial(self, name) ==
    IF name \in DOMAIN self.materials
    THEN [self |-> [self EXCEPT !.materials =
                       [n \in DOMAIN self.materials \ {name} |->
                           self.materials[n]]],
          exc |-> "none", ret |-> TRUE]
    ELSE [self |-> self, exc |-> "none", ret |-> FALSE]

(***************************************************************************)
(* Use of one material catalog: the caller opens it once, then loads,      *)
(* adds, deletes and looks up materials.  obj is the MaterialDatabase.     *)
(***************************************************************************)
CustomProperties ==
    { [E11 |-> 2000, E22 |-> 150, G12 |-> 70, V12 |-> 30],
      [E11 |-> 1000, E22 |-> 1000, G12 |-> 50, V12 |-> 10] }

AddedNames == {"custom_laminate", "T300/5208_graphite_epoxy"}

LookupNames == AddedNames \cup {"Kevlar49_aramid_epoxy", "unknown"}

Entry(key, material_data) == [key |-> key, material_data |-> material_data]

SomeProperties == [E11 |-> 2000, E22 |-> 150, G12 |-> 70, V12 |-> 30]

\* What a database path can hold.  The JSON objects: an empty one, one
\* entry as save_database writes it, one entry without "name", one entry
\* whose "name" differs from its key, and one whose second entry has no
\* "properties".
Files ==
    { [kind |-> "absent"], [kind |-> "vanishes"], [kind |-> "unreadable"],
      [kind |-> "invalid_json"], [kind |-> "not_object"],
      [kind |-> "json", data |-> << >>],
      [kind |-> "json", data |->
          <<Entry("custom_laminate",
                  [name |-> "custom_laminate", properties |-> SomeProperties])>>],
      [kind |-> "json", data |->
          <<Entry("custom_laminate", [properties |-> SomeProperties])>>],
      [kind |-> "json", data |->
          <<Entry("custom_laminate",
                  [name |-> "T300/5208_graphite_epoxy",
                   properties |-> SomeProperties])>>],
      [kind |-> "json", data |->
          <<Entry("custom_laminate", [properties |-> SomeProperties]),
            Entry("Kevlar49_aramid_epoxy", [name |-> "Kevlar49_aramid_epoxy"])>>] }

Paths == {NoPath, [path |-> "materials.json"]}

InitCatalog == Init

CatalogCall(op, args, r, result) ==
    /\ obj' = r.self
    /\ exc' = r.exc
    /\ ret' = result
    /\ call' = [op |-> op, args |-> args]
    /\ UNCHANGED <<stages, thr>>

CatalogOpen ==
    /\ call.op = "none"
    /\ \E p \in Paths, f \in Files :
          CatalogCall("MaterialDatabase", <<p, f>>,
                      MaterialDatabaseInit(p, f), NoValue)

CatalogLoad ==
    /\ obj # NoObject
    /\ \E f \in Files :
          CatalogCall("load_database", <<[path |-> "materials.json"], f>>,
                      LoadDatabase(obj, f), NoValue)

CatalogGet ==
    /\ obj # NoObject
    /\ \E n \in LookupNames :
          LET r == GetMaterial(obj, n)
          IN  CatalogCall("get_material", <<n>>, r, r.ret)

CatalogAdd ==
    /\ obj # NoObject
    /\ \E n \in AddedNames, p \in CustomProperties :
          LET r == AddMaterial(obj, Material(n, p))
          IN  CatalogCall("add_material", <<Material(n, p)>>, r, r.ret)

CatalogDelete ==
    /\ obj # NoObject
    /\ \E n \in LookupNames :
          LET r == DeleteMaterial(obj, n)
          IN  CatalogCall("delete_material", <<n>>, r, r.ret)

NextCatalog ==
    \/ CatalogOpen
    \/ CatalogLoad
    \/ CatalogGet
    \/ CatalogAdd
    \/ CatalogDelete

SpecCatalog == InitCatalog /\ [][NextCatalog]_vars

(***************************************************************************)
(* component.py: Component and its subclasses NoseCone,                    *)
(* CylindricalAirframe and Fin.  A call of a class passes its positional   *)
(* arguments to the __init__ of that class; Python raises TypeError when   *)
(* their number does not fit the signature.  A number is                   *)
(* [scalar |-> TRUE, v |-> <<x>>] (x in thousandths of an inch), a list    *)
(* [scalar |-> FALSE, v |-> list]; a string s is Str(s), beside None.      *)
(***************************************************************************)
Str(s) == [str |-> s]

DefaultPlyThickness == [scalar |-> TRUE, v |-> <<5>>]

\* Component.__init__
ComponentInit(cls, name, component_type, geometry, layup_angles, ply_thickness, material_name) ==
    [cls |-> cls,
     name |-> name,
     component_type |-> component_type,
     geometry |-> geometry,
     layup_angles |-> layup_angles,
     ply_thickness |->
        IF ply_thickness.scalar
        THEN [scalar |-> FALSE,
              v |-> [i \in 1..Len(layup_angles) |-> ply_thickness.v[1]]]
        ELSE ply_thickness,
     material_name |-> material_name,
     results |-> None]

\* The component_type a subclass passes to Component.__init__.
TypeOfClass(cls) ==
    CASE cls = "NoseCone" -> Str("nosecone")
      [] cls = "CylindricalAirframe" -> Str("airframe")
      [] cls = "Fin" -> Str("fin")

\* cls(*args)
New(cls, args) ==
    LET n == Len(args)
        Arg(i, default) == IF i <= n THEN args[i] ELSE default
    IN  IF cls = "Component"
        THEN IF n < 4 \/ n > 6
             THEN [exc |-> "TypeError", self |-> NoObject]
             ELSE [exc |-> "none",
                   self |-> ComponentInit(cls, args[1], args[2], args[3],
                                          args[4],
                                          Arg(5, DefaultPlyThickness),
                                          Arg(6, None))]
        ELSE IF n < 3 \/ n > 5
             THEN [exc |-> "TypeError", self |-> NoObject]
             ELSE [exc |-> "none",
                   self |-> ComponentInit(cls, args[1], TypeOfClass(cls),
                                          args[2], args[3],
                                          Arg(4, DefaultPlyThickness),
                                          Arg(5, None))]

\* Component.to_dict
ToDict(self) ==
    [name |-> self.name,
     component_type |-> self.component_type,
     geometry |-> self.geometry,
     layup_angles |-> self.layup_angles,
     ply_thickness |-> self.ply_thickness,
     material_name |-> self.material_name]

\* data.get(key, default)
DictGet(data, key, default) ==
    IF key \in DOMAIN data THEN data[key] ELSE default

\* Component.from_dict, a classmethod inherited by the subclasses.
FromDict(cls, data) ==
    IF \E key \in {"name", "component_type", "geometry", "layup_angles"} :
          key \notin DOMAIN data
    THEN [exc |-> "KeyError", self |-> NoObject]
    ELSE New(cls, <<data.name, data.component_type, data.geometry,
                    data.layup_angles,
                    DictGet(data, "ply_thickness", DefaultPlyThickness),
                    DictGet(data, "material_name", None)>>)

(***************************************************************************)
(* Serialization of one component: the caller creates a component, turns   *)
(* it into a dictionary and passes the dictionary to from_dict of the      *)
(* component's class.  obj is the component, ret the last result.          *)
(***************************************************************************)
Classes == {"Component", "NoseCone", "CylindricalAirframe", "Fin"}

Geometries ==
    { [length |-> 24, base_diameter |-> 6], [length |-> 48, diameter |-> 6] }

ComponentLayups == {<< >>, <<0>>, <<0, 45>>, <<45, -45, 90>>}

\* ply_thickness and material_name as passed after layup_angles: both left
\* out, a number, a list, and each with a material name or None.
OptionalArgs ==
    { << >>, <<[scalar |-> TRUE, v |-> <<10>>]>>,
      <<[scalar |-> FALSE, v |-> <<5, 10>>]>>,
      <<[scalar |-> TRUE, v |-> <<10>>], Str("T300/5208_graphite_epoxy")>>,
      <<[scalar |-> FALSE, v |-> <<5, 10>>], None>> }

InitComponent == Init

ComponentCall(op, args, self, e, result) ==
    /\ obj' = self
    /\ exc' = e
    /\ ret' = result
    /\ call' = [op |-> op, args |-> args]
    /\ UNCHANGED <<stages, thr>>

Create ==
    /\ call.op = "none"
    /\ \E cls \in Classes, g \in Geometries, a \in ComponentLayups,
          o \in OptionalArgs :
          LET args == IF cls = "Component"
                      THEN <<Str("part"), Str("panel"), g, a>> \o o
                      ELSE <<Str("part"), g, a>> \o o
              r == New(cls, args)
          IN  ComponentCall(cls, args, r.self, r.exc, NoValue)

Serialize ==
    /\ obj # NoObject
    /\ call.op \in Classes
    /\ ComponentCall("to_dict", <<>>, obj, "none", ToDict(obj))

Deserialize ==
    /\ obj # NoObject
    /\ call.op = "to_dict"
    /\ LET r == FromDict(obj.cls, ret)
       IN  ComponentCall("from_dict", <<obj.cls, ret>>, obj, r.exc, r.self)

NextComponent ==
    \/ Create
    \/ Serialize
    \/ Deserialize

SpecComponent == InitComponent /\ [][NextComponent]_vars

(***************************************************************************)
(* Properties.                                                             *)
(***************************************************************************)
IsInit == call.op = "__init__"
InitAngles == call.args[1]
InitThicknesses == call.args[2]
Built == obj # NoObject
Positive(x) == x[1] > 0

\* C1: constructing a laminate from an angle list and a thickness list of
\* different lengths fails with InvalidLayup before any matrix computation
\* (Q, z-coordinates, per-ply transforms, A/B/D) is entered.
C1_MismatchFailsFast ==
    (IsInit /\ ~InitThicknesses.scalar
            /\ Len(InitAngles) # Len(InitThicknesses.v))
        => (exc = "InvalidLayup" /\ stages = <<>> /\ ~Built)

\* C2: constructing a laminate of zero plies fails with InvalidLayup; no
\* object with k = 0 exists, so no 6x6 solve runs against all-zero A, B, D.
C2_ZeroPliesRejected ==
    /\ (IsInit /\ Len(InitAngles) = 0) => (exc = "InvalidLayup" /\ ~Built)
    /\ Built => obj.k > 0

\* C3: ply recovery with a ply number n < 1 or n > k fails with
\* PlyIndexOutOfRange; it never returns the state of an existing ply.
C3_PlyIndexChecked ==
    (Built /\ call.op = "calculate_ply_strains_stresses"
           /\ (call.args[3] < 1 \/ call.args[3] > obj.k))
        => (exc = "PlyIndexOutOfRange" /\ ret = NoValue)

\* C4: in a constructed laminate whose plies have positive thickness,
\* z_top is strictly increasing, z_top[i] - t[i] = z_top[i-1] for i > 1 and
\* z_top[1] - t[1] = -total/2, total being the sum of the thickness array.
PositivePlies == \A i \in 1..obj.k : Positive(obj.t[i])

C4_ZTopStacked ==
    (Built /\ PositivePlies) =>
        \A i \in 1..obj.k :
            /\ i > 1 => /\ RLt(obj.z[i - 1], obj.z[i])
                        /\ RSub(obj.z[i], obj.t[i]) = obj.z[i - 1]
            /\ i = 1 => RSub(obj.z[1], obj.t[1])
                            = RNeg(RMul(SumSeq(obj.t), Half))

C4_Witness ==
    /\ Built /\ PositivePlies /\ obj.k = 2
    /\ obj.t[1] # obj.t[2]

\* C5: no call of calculate_response, calculate_ply_strains_stresses,
\* get_engineering_constants or analyze_layup_distribution changes the
\* stiffness state (Q, z, z_m, T, T_e, Q_bar, A, B, D) of the laminate.
Stiffness(o) ==
    [Q |-> o.Q, z |-> o.z, z_m |-> o.z_m, T |-> o.T, T_e |-> o.T_e,
     Q_bar |-> o.Q_bar, A |-> o.A, B |-> o.B, D |-> o.D]

C5_QueriesKeepStiffness ==
    [][Built => (Built' /\ Stiffness(obj') = Stiffness(obj))]_vars

C5_Witness ==
    /\ Built /\ obj.k = 2
    /\ call.op = "get_engineering_constants"
    /\ exc = "none" /\ IsFinite(ret.Ex)

\* C6: under every interleaving of concurrent response, ply-recovery and
\* engineering-constant queries on one laminate, each query ends with the
\* outcome it has when run alone, and no query writes the laminate.
Alone(op, args) ==
    LET r == CASE op = "calculate_response" ->
                    CalculateResponse(obj, args[1], args[2])
               [] op = "calculate_ply_strains_stresses" ->
                    CalculatePlyStrainsStresses(obj, args[1], args[2], args[3])
               [] op = "get_engineering_constants" ->
                    GetEngineeringConstants(obj)
    IN  [exc |-> r.exc, ret |-> r.ret]

C6_QueriesIndependent ==
    /\ obj = LaminateInit(call.args[1], call.args[2], call.args[3]).self
    /\ \A th \in Threads :
          thr[th].pc = "done" =>
              [exc |-> thr[th].exc, ret |-> thr[th].ret]
                  = Alone(thr[th].op, thr[th].args)

C6_Witness ==
    /\ thr[1].pc = "done" /\ thr[1].op = "calculate_response"
    /\ thr[1].exc = "none"
    /\ thr[2].pc = "done" /\ thr[2].op = "calculate_response"
    /\ thr[2].exc = "none"
    /\ thr[1].args # thr[2].args
    /\ thr[1].ret # thr[2].ret

\* C7: for a stacking sequence symmetric about the midplane (one thickness
\* per ply; ply i and ply k+1-i have the same angle and thickness) every
\* entry of the coupling matrix B is zero.
SymmetricStack ==
    /\ Len(obj.t) = obj.k
    /\ \A i \in 1..obj.k :
          /\ obj.angles[i] = obj.angles[obj.k + 1 - i]
          /\ obj.t[i] = obj.t[obj.k + 1 - i]

C8_ABDSymmetric ==
    (Built /\ \A p \in 1..obj.k : IsSymmetric(obj.Q_bar[p])) =>
        /\ IsSymmetric(obj.A)
        /\ IsSymmetric(obj.B)
        /\ IsSymmetric(obj.D)
        /\ IsSymmetric(AbdMatrix(obj))

C8_Witness ==
    /\ Built /\ obj.k = 2
    /\ \A p \in 1..obj.k : IsSymmetric(obj.Q_bar[p])
    /\ obj.A[1][3] # Zero /\ obj.B[1][3] # Zero /\ obj.D[2][3] # Zero
    /\ obj.A[1][1] # obj.A[2][2]

\* C9: for a ply of fibre angle 0, T and T_e are the 3x3 identity and
\* Q_bar equals Q entry by entry.
C9_ZeroAngleIsIdentity ==
    Built =>
        \A p \in 1..obj.k :
            obj.angles[p] = 0 =>
                /\ obj.T[p] = Identity(3)
                /\ obj.T_e[p] = Identity(3)
                /\ obj.Q_bar[p] = obj.Q

C9_Witness ==
    /\ Built /\ obj.k = 2
    /\ obj.angles[1] = 45 /\ obj.angles[2] = 0
    /\ obj.Q_bar[2] = obj.Q /\ obj.Q_bar[1] # obj.Q

\* C10: when calculate_response returns, the 6x6 matrix [[A, B], [B, D]]
\* times (midplane strains, curvatures) is the load vector (forces,
\* moments); it fails only on a singular matrix.
UnitVectors6 == {[i \in 1..6 |-> IF i = j THEN One ELSE Zero] : j \in 1..6}

C10_ResponseRoundTrip ==
    (Built /\ call.op = "calculate_response") =>
        /\ exc = "none" =>
              MatVec(AbdMatrix(obj), ret.midplane_strains \o ret.curvatures)
                  = call.args[1] \o call.args[2]
        /\ exc # "none" =>
              \E v \in UnitVectors6 :
                  MatVec(AbdMatrix(obj), v) = [i \in 1..6 |-> Zero]

C10_Witness ==
    /\ Built /\ call.op = "calculate_response" /\ exc = "none"
    /\ obj.B # Zeros(3, 3)
    /\ call.args[2] # ZeroVector
    /\ ret.curvatures # ZeroVector
    /\ ret.midplane_strains # ret.curvatures


\* C11: for a ply number n in 1..k, ply recovery returns global_strain =
\* midplane_strains + z_m[n] * curvatures, global_stress = Q_bar[n] *
\* global_strain, local_strain = T_e[n] * global_strain and local_stress =
\* T[n] * global_stress, all of ply n itself; with zero curvatures the
\* global strain is the midplane strain.
C11_PlyRecoveryOfPlyN ==
    (Built /\ call.op = "calculate_ply_strains_stresses"
           /\ call.args[3] \in 1..obj.k) =>
        LET e0 == call.args[1]
            kap == call.args[2]
            n == call.args[3]
            gs == [c \in 1..3 |-> RAdd(e0[c], RMul(obj.z_m[n], kap[c]))]
        IN  /\ exc = "none"
            /\ ret.global_strain = gs
            /\ ret.global_stress = MatVec(obj.Q_bar[n], gs)
            /\ ret.local_strain = MatVec(obj.T_e[n], gs)
            /\ ret.local_stress = MatVec(obj.T[n], MatVec(obj.Q_bar[n], gs))
            /\ kap = ZeroVector => ret.global_strain = e0

C11_Witness ==
    /\ Built /\ call.op = "calculate_ply_strains_stresses" /\ exc = "none"
    /\ obj.k = 2 /\ call.args[3] = 1
    /\ obj.angles[1] # obj.angles[2]
    /\ obj.T[1] # obj.T[2] /\ obj.Q_bar[1] # obj.Q_bar[2]
    /\ obj.z_m[1] # obj.z_m[2]
    /\ call.args[2] # ZeroVector
    /\ ret.global_strain # call.args[1]
    /\ ret.local_stress # ret.global_stress

\* C12: when the layup analyzer returns, +45 and -45 plies share one
\* bucket, 0 and 90 plies have a bucket each, every bucket's share is its
\* count over the total ply count, plies of any other angle are counted in
\* total_plies and in no bucket, and the three shares sum to 100 percent
\* exactly when every angle is 0, 45, -45 or 90 and to less otherwise.
NamedAngles == {0, 45, -45, 90}

PliesAt(S) == Cardinality({i \in 1..Len(obj.angles) : obj.angles[i] \in S})

Share(n) == RDiv(R(100 * n), R(Len(obj.angles)))

C12_LayupBuckets ==
    (Built /\ call.op = "analyze_layup_distribution" /\ exc = "none") =>
        LET pct == ret.percentages
            sum == RAdd(pct.deg0, RAdd(pct.deg45, pct.deg90))
        IN  /\ ret.total_plies = Len(obj.angles)
            /\ pct.deg0 = Share(PliesAt({0}))
            /\ pct.deg45 = Share(PliesAt({45, -45}))
            /\ pct.deg90 = Share(PliesAt({90}))
            /\ \A a \in DOMAIN ret.counts : ret.counts[a] = PliesAt({a})
            /\ PliesAt(NamedAngles) + PliesAt(DOMAIN ret.counts \ NamedAngles)
                  = ret.total_plies
            /\ sum = R(100) <=> PliesAt(NamedAngles) = Len(obj.angles)
            /\ PliesAt(NamedAngles) < Len(obj.angles) => RLt(sum, R(100))

C12_Witness ==
    /\ Built /\ call.op = "analyze_layup_distribution" /\ exc = "none"
    /\ obj.angles = <<180, -45>>
    /\ ret.percentages.deg45 = R(50)
    /\ ret.total_plies = 2

\* C13: get_engineering_constants fails with DegenerateLaminate whenever
\* A[0,0] * A[1,1] is zero; it returns no dictionary obtained by dividing
\* by a zero A[0,0] or A[1,1].
C13_DegenerateLaminateRejected ==
    (Built /\ call.op = "get_engineering_constants"
           /\ RMul(obj.A[1][1], obj.A[2][2]) = Zero)
        => (exc = "DegenerateLaminate" /\ ret = NoValue)

\* C14: calculate_response fails with SingularLaminate whenever the 6x6
\* matrix [[A, B], [B, D]] is singular (here: has a zero column), and
\* returns no response for it.
C14_SingularLaminateRejected ==
    (Built /\ call.op = "calculate_response"
           /\ \E v \in UnitVectors6 :
                 MatVec(AbdMatrix(obj), v) = [i \in 1..6 |-> Zero])
        => (exc = "SingularLaminate" /\ ret = NoValue)

\* C15: construction from a material with 1 - V12 * V21 = 0, V21 = V12 *
\* E22 / E11, fails with DegenerateMaterial before any per-ply transform or
\* A/B/D assembly.
C15_DegenerateMaterialRejected ==
    (IsInit /\ LET m == call.args[3]
               IN  RMul(m.V12, RDiv(RMul(m.V12, m.E22), m.E11)) = One)
        => /\ exc = "DegenerateMaterial"
           /\ ~Built
           /\ \A i \in 1..Len(stages) : stages[i] \notin {"T", "ABD"}

\* C16: for every index pair (i, j), A[i,j] is the sum over the plies of
\* Q_bar[i,j] * t, B[i,j] is half the sum of Q_bar[i,j] * (z_top^2 -
\* (z_top - t)^2) and D[i,j] a third of the sum of Q_bar[i,j] * (z_top^3 -
\* (z_top - t)^3), every ply entering once with its own t and z_top; the
\* 6x6 matrix of the solver is [[A, B], [B, D]].
RECURSIVE SumOver(_, _)
SumOver(f, n) == IF n = 0 THEN Zero ELSE RAdd(SumOver(f, n - 1), f[n])

C16_AssemblyFormulas ==
    Built =>
        LET low == [p \in 1..obj.k |-> RSub(obj.z[p], obj.t[p])]
            M == AbdMatrix(obj)
        IN  \A i \in 1..3, j \in 1..3 :
              /\ obj.A[i][j] =
                    SumOver([p \in 1..obj.k |->
                                RMul(obj.Q_bar[p][i][j], obj.t[p])], obj.k)
              /\ obj.B[i][j] =
                    RMul(Half,
                         SumOver([p \in 1..obj.k |->
                                     RMul(obj.Q_bar[p][i][j],
                                          RSub(RMul(obj.z[p], obj.z[p]),
                                               RMul(low[p], low[p])))],
                                 obj.k))
              /\ obj.D[i][j] =
                    RMul(Third,
                         SumOver([p \in 1..obj.k |->
                                     RMul(obj.Q_bar[p][i][j],
                                          RSub(RMul(obj.z[p], RMul(obj.z[p], obj.z[p])),
                                               RMul(low[p], RMul(low[p], low[p]))))],
                                 obj.k))
              /\ M[i][j] = obj.A[i][j]
              /\ M[i][j + 3] = obj.B[i][j]
              /\ M[i + 3][j] = obj.B[i][j]
              /\ M[i + 3][j + 3] = obj.D[i][j]

C16_Witness ==
    /\ Built /\ obj.k = 2
    /\ obj.t[1] # obj.t[2] /\ Positive(obj.t[1]) /\ Positive(obj.t[2])
    /\ obj.angles[1] # obj.angles[2]
    /\ obj.B[1][3] # Zero /\ obj.D[1][3] # Zero
    /\ obj.D[1][1] # obj.A[1][1]

\* C17: when no database path is given, the path does not exist, or
\* loading the file fails (missing file or invalid JSON), the call returns
\* without an exception and the catalog holds every built-in default
\* material under its name.
LoadFailsOver ==
    \/ /\ call.op = "MaterialDatabase"
       /\ \/ call.args[1] = NoPath
          \/ call.args[2].kind \in {"absent", "vanishes", "invalid_json"}
    \/ /\ call.op = "load_database"
       /\ call.args[2].kind \in {"absent", "vanishes", "invalid_json"}

C17_FallbackToDefaults ==
    LoadFailsOver =>
        /\ exc = "none"
        /\ Built
        /\ \A n \in DOMAIN DefaultMaterials :
              /\ n \in DOMAIN obj.materials
              /\ obj.materials[n].name = n
              /\ obj.materials[n].properties = DefaultMaterials[n]

C17_Witness ==
    /\ call.op = "MaterialDatabase"
    /\ call.args[1] # NoPath
    /\ call.args[2].kind = "invalid_json"
    /\ Built
    /\ DOMAIN obj.materials = DOMAIN DefaultMaterials

\* C19: in the material catalog every key maps to the material of that
\* name; delete_material(name) returns True exactly when name was present,
\* leaves get_material(name) returning None and every other entry as it
\* was; add_material stores the material under its name, replacing an
\* entry of that name, and leaves every other entry as it was.
KeysAreNames == \A n \in DOMAIN obj.materials : obj.materials[n].name = n

OthersKept(name) ==
    /\ DOMAIN obj'.materials \ {name} = DOMAIN obj.materials \ {name}
    /\ \A n \in DOMAIN obj.materials \ {name} :
          obj'.materials[n] = obj.materials[n]

DeleteAsClaimed ==
    call'.op = "delete_material" =>
        LET name == call'.args[1]
        IN  /\ ret' = (name \in DOMAIN obj.materials)
            /\ name \notin DOMAIN obj'.materials
            /\ OthersKept(name)

AddAsClaimed ==
    call'.op = "add_material" =>
        LET material == call'.args[1]
        IN  /\ material.name \in DOMAIN obj'.materials
            /\ obj'.materials[material.name] = material
            /\ OthersKept(material.name)

C19_CatalogKeyedByName ==
    /\ [](Built => KeysAreNames)
    /\ [][Built => (DeleteAsClaimed /\ AddAsClaimed)]_vars

\* C18: for a component of any class of the hierarchy, from_dict of its
\* class on the dictionary of to_dict succeeds and yields a component with
\* the same name, component_type, geometry, layup_angles, ply_thickness
\* and material_name.
C18_ComponentRoundTrip ==
    call.op = "from_dict" =>
        /\ exc = "none"
        /\ ret # NoObject
        /\ ToDict(ret) = ToDict(obj)
=============================================================================
